---- MODULE Spec2Model ----
(***************************************************************************)
(* Model of oscrypto/_pkcs12.py: pkcs12_kdf, the RFC 7292 appendix B.2     *)
(* key derivation function.  One call is a sequential program; every       *)
(* statement group of the function is one action, and the local variables  *)
(* of the function are the state.  Byte strings are sequences over 0..255. *)
(* Python integers are unbounded: they are little-endian base-256 limb     *)
(* sequences without a most-significant zero limb.                         *)
(***************************************************************************)
EXTENDS Integers, Sequences, FiniteSets, TLC

\* ---------------------------------------------------------------- bounds
\* largest number of u-byte blocks a requested key_length needs
MaxBlocks == 3
\* largest iteration count tried
MaxIterations == 2
\* number of digest providers tried (the digest is an external function)
NumDigests == 2

\* ---------------------------------------------------------- byte strings
Min(a, b) == IF a < b THEN a ELSE b

\* b'\x00' * n, chr_cls(x) * n
Times(x, n) == [k \in 1..n |-> x]

\* s[a:b] of Python, 0-based, clamped as Python clamps slices
Slice(s, a, b) ==
  LET lo == Min(a, Len(s))
      hi == Min(b, Len(s))
  IN  IF hi <= lo THEN << >> ELSE [k \in 1..(hi - lo) |-> s[lo + k]]

\* s[a:] of Python
SliceFrom(s, a) == Slice(s, a, Len(s))

Reverse(s) == [k \in 1..Len(s) |-> s[Len(s) + 1 - k]]

\* int(math.ceil(float(a) / b))
CeilDiv(a, b) == (a + b - 1) \div b

\* ------------------------------------------------- unbounded integers
\* a limb sequence without its most-significant zero limbs
DropHighZeros(n) ==
  LET nz == { k \in 1..Len(n) : n[k] # 0 }
  IN  IF nz = {} THEN << >>
      ELSE SubSeq(n, 1, CHOOSE k \in nz : \A m \in nz : m <= k)

\* asn1crypto.int.int_from_bytes(value): big-endian unsigned
int_from_bytes(bs) == DropHighZeros(Reverse(bs))

Limb(n, k) == IF k <= Len(n) THEN n[k] ELSE 0

\* limbs lo..hi of a + b with the carry into limb lo, and the carry out of
\* limb hi
RECURSIVE AddLimbs(_, _, _, _, _)
AddLimbs(a, b, lo, hi, carry) ==
  IF lo = hi
  THEN LET s == Limb(a, lo) + Limb(b, lo) + carry
       IN  [limbs |-> << s % 256 >>, carry |-> s \div 256]
  ELSE LET mid == (lo + hi) \div 2
           low == AddLimbs(a, b, lo, mid, carry)
           high == AddLimbs(a, b, mid + 1, hi, low.carry)
       IN  [limbs |-> low.limbs \o high.limbs, carry |-> high.carry]

\* a + b on Python integers
IntAdd(a, b) ==
  LET n == IF Len(a) > Len(b) THEN Len(a) ELSE Len(b)
      s == AddLimbs(a, b, 1, n, 0)
  IN  IF n = 0 THEN << >>
      ELSE IF s.carry = 0 THEN s.limbs ELSE s.limbs \o << s.carry >>

IntOne == << 1 >>

\* asn1crypto.int.int_to_bytes(value): big-endian, as few bytes as the value
\* needs
int_to_bytes(n) == Reverse(n)

\* ------------------------------------------------------------ text codec
IsCont(b) == b >= 128 /\ b <= 191

DecodeError == << -1 >>

\* bytes.decode('utf-8'): the code points, or DecodeError
RECURSIVE Utf8Decode(_)
Utf8Decode(bs) ==
  IF Len(bs) = 0 THEN << >>
  ELSE
    LET b1 == bs[1]
        n  == Len(bs)
        width == IF b1 < 128 THEN 1
                 ELSE IF b1 >= 194 /\ b1 <= 223 THEN 2
                 ELSE IF b1 >= 224 /\ b1 <= 239 THEN 3
                 ELSE IF b1 >= 240 /\ b1 <= 244 THEN 4
                 ELSE 0
        ok == /\ width > 0
              /\ n >= width
              /\ \A k \in 2..width : IsCont(bs[k])
              /\ (b1 = 224 => bs[2] >= 160)
              /\ (b1 = 237 => bs[2] <= 159)
              /\ (b1 = 240 => bs[2] >= 144)
              /\ (b1 = 244 => bs[2] <= 143)
        cp == IF width = 1 THEN b1
              ELSE IF width = 2 THEN (b1 - 192) * 64 + (bs[2] - 128)
              ELSE IF width = 3
                   THEN (b1 - 224) * 4096 + (bs[2] - 128) * 64 + (bs[3] - 128)
              ELSE (b1 - 240) * 262144 + (bs[2] - 128) * 4096
                   + (bs[3] - 128) * 64 + (bs[4] - 128)
    IN  IF ~ok THEN DecodeError
        ELSE LET rest == Utf8Decode(SubSeq(bs, width + 1, n))
             IN  IF rest = DecodeError THEN DecodeError
                 ELSE << cp >> \o rest

\* one code point as UTF-16 big-endian code units
Utf16Unit(w) == << w \div 256, w % 256 >>

RECURSIVE Utf16beEncode(_)
Utf16beEncode(cps) ==
  IF Len(cps) = 0 THEN << >>
  ELSE LET cp == cps[1]
           enc == IF cp < 65536 THEN Utf16Unit(cp)
                  ELSE Utf16Unit(55296 + ((cp - 65536) \div 1024))
                       \o Utf16Unit(56320 + ((cp - 65536) % 1024))
       IN  enc \o Utf16beEncode(Tail(cps))

\* the password decoded as ASCII instead of UTF-8
EncodePasswordAscii(bs) ==
  IF \E k \in 1..Len(bs) : bs[k] >= 128 THEN DecodeError
  ELSE Utf16beEncode(bs) \o << 0, 0 >>

\* the password encoded without the two-byte terminator
EncodePasswordNoTerminator(bs) ==
  LET cps == Utf8Decode(bs)
  IN  IF cps = DecodeError THEN DecodeError ELSE Utf16beEncode(cps)

\* password.decode('utf-8').encode('utf-16be') + b'\x00\x00'
EncodePassword(bs) ==
  LET cps == Utf8Decode(bs)
  IN  IF cps = DecodeError THEN DecodeError
      ELSE Utf16beEncode(cps) \o << 0, 0 >>

\* ----------------------------------------------------- digest parameters
HashNames == {"md5", "sha1", "sha224", "sha256", "sha384", "sha512"}

DigestSize(h) ==
  CASE h = "md5"    -> 16
    [] h = "sha1"   -> 20
    [] h = "sha224" -> 28
    [] h = "sha256" -> 32
    [] h = "sha384" -> 48
    [] h = "sha512" -> 64

BlockSize(h) == IF h \in {"sha384", "sha512"} THEN 128 ELSE 64

\* ------------------------------------------------------- digest provider
\* the sum modulo 256 of bytes lo..hi of s
RECURSIVE ByteSum(_, _, _)
ByteSum(s, lo, hi) ==
  IF lo > hi THEN 0
  ELSE IF lo = hi THEN s[lo]
  ELSE LET mid == (lo + hi) \div 2
       IN  (ByteSum(s, lo, mid) + ByteSum(s, mid + 1, hi)) % 256

\* the first digest byte takes the extreme values a digest can start with
LeadBytes == << 0, 255, 90 >>

\* getattr(hashlib, h)(msg).digest(): a deterministic function of the message
\* giving DigestSize(h) bytes; key selects which function the provider is
Digest(h, key, msg) ==
  LET cs == (ByteSum(msg, 1, Len(msg)) + Len(msg) + key) % 256
  IN  [k \in 1..DigestSize(h) |->
         IF k = 1 THEN LeadBytes[(cs % 3) + 1] ELSE (cs + 37 * k) % 256]

\* ------------------------------------------------------- block building
\* while len(X) < n: X += src
RECURSIVE Extend(_, _, _)
Extend(acc, src, n) == IF Len(acc) < n THEN Extend(acc \o src, src, n) ELSE acc

\* steps 2 and 3: src repeated and cut to v * ceil(len(src) / v) bytes
Stretch(src, v) ==
  IF src # << >>
  THEN LET n == v * CeilDiv(Len(src), v)
       IN  Slice(Extend(<< >>, src, n), 0, n)
  ELSE << >>

\* step 1
Diversifier(id, v) == Times(id, v)

\* step 5
NumBlocks(kl, u) == CeilDiv(kl, u)

\* the inner loop running one pass too many: range(1, iterations + 1)
RehashLastOneMore(n) == n + 1

\* step 6A, inner loop: for _ in range(2, iterations + 1)
RehashLast(n) == n

\* step 6B run for the last block too: if i <= c
NeedsUpdateAlways(blk, cnt) == blk <= cnt

\* step 6B is run for every block but the last: if i < c
NeedsUpdate(blk, cnt) == blk < cnt

\* step 6B: A2 repeated to v bytes, as an integer, plus one
MakeB(a2, w) ==
  IntAdd(int_from_bytes(Slice(Extend(<< >>, a2, w), 0, w)), IntOne)

\* step 6C for chunk k: I with I[k*v:(k+1)*v] replaced by the bytes of
\* int_from_bytes(I_j) + B, cut to the last v bytes when longer than v
UpdateChunkOf(buf, k, w, b) ==
  LET start == k * w
      end   == (k + 1) * w
      sum   == int_to_bytes(IntAdd(int_from_bytes(Slice(buf, start, end)), b))
      I_j_l == Len(sum)
      I_j   == IF I_j_l > w THEN SliceFrom(sum, I_j_l - w) ELSE sum
  IN  Slice(buf, 0, start) \o I_j \o SliceFrom(buf, end)

\* the block offset counted from 1: begin = i * u
BeginNext(blk, w) == blk * w

\* step 7
Begin(blk, w) == (blk - 1) * w

ToCopy(kl, w) == Min(kl, w)

CopyInto(acc, a2, begin, n) ==
  Slice(acc, 0, begin) \o Slice(a2, 0, n) \o SliceFrom(acc, begin + n)

\* the whole accumulator returned: return A
ResultWhole(acc, kl) == acc

\* the end of the accumulator returned: return A[-key_length:]
ResultTail(acc, kl) == SliceFrom(acc, Len(acc) - kl)

\* return A[0:key_length]
Result(acc, kl) == Slice(acc, 0, kl)

\* ------------------------------------------------------------ validation
Error(cls, msg) == [cls |-> cls, msg |-> msg]

NoError == Error("", "")

\* the checks without the last one, of id_
ValidationErrorNoIdCheck(h, pw, sl, it, kl, id) ==
  IF pw.t # "bytes" THEN Error("ValueError", "password must be a byte string")
  ELSE IF sl.t # "bytes" THEN Error("ValueError", "salt must be a byte string")
  ELSE IF it.t # "int" THEN Error("ValueError", "iterations must be an integer")
  ELSE IF it.n < 1 THEN Error("ValueError", "iterations must be greater than 0")
  ELSE IF kl.t # "int" THEN Error("ValueError", "key_length must be an integer")
  ELSE IF kl.n < 1 THEN Error("ValueError", "key_length must be greater than 0")
  ELSE IF h \notin HashNames THEN Error("ValueError", "hash_algorithm must be one of")
  ELSE NoError

\* the checks with the type checks raising TypeError
ValidationErrorTypeError(h, pw, sl, it, kl, id) ==
  IF pw.t # "bytes" THEN Error("TypeError", "password must be a byte string")
  ELSE IF sl.t # "bytes" THEN Error("TypeError", "salt must be a byte string")
  ELSE IF it.t # "int" THEN Error("TypeError", "iterations must be an integer")
  ELSE IF it.n < 1 THEN Error("ValueError", "iterations must be greater than 0")
  ELSE IF kl.t # "int" THEN Error("TypeError", "key_length must be an integer")
  ELSE IF kl.n < 1 THEN Error("ValueError", "key_length must be greater than 0")
  ELSE IF h \notin HashNames THEN Error("ValueError", "hash_algorithm must be one of")
  ELSE IF id \notin {1, 2, 3} THEN Error("ValueError", "id_ must be one of 1, 2, 3")
  ELSE NoError

\* the checks of the function head, in order; NoError when all pass
ValidationError(h, pw, sl, it, kl, id) ==
  IF pw.t # "bytes" THEN Error("ValueError", "password must be a byte string")
  ELSE IF sl.t # "bytes" THEN Error("ValueError", "salt must be a byte string")
  ELSE IF it.t # "int" THEN Error("ValueError", "iterations must be an integer")
  ELSE IF it.n < 1 THEN Error("ValueError", "iterations must be greater than 0")
  ELSE IF kl.t # "int" THEN Error("ValueError", "key_length must be an integer")
  ELSE IF kl.n < 1 THEN Error("ValueError", "key_length must be greater than 0")
  ELSE IF h \notin HashNames THEN Error("ValueError", "hash_algorithm must be one of")
  ELSE IF id \notin {1, 2, 3} THEN Error("ValueError", "id_ must be one of 1, 2, 3")
  ELSE NoError

\* ----------------------------------------------------------------- state
VARIABLES
  hash_algorithm, password, salt, iterations, key_length, id_,  \* arguments
  key,              \* which function the digest provider computes
  pc,               \* position in the function body
  utf16_password, u, v, D, S, P, I, c, A, i, A2, B, j, to_copy, \* locals
  r,                \* loop variable of the re-hash loop
  nchunks,          \* len(I) // v, evaluated when the chunk loop starts
  result, err,      \* return value, raised exception
  ndigest,          \* digest invocations of the call so far
  nupdates,         \* chunk loops of the call completed so far
  seedI,            \* the I that the last seed hash read
  lastUpdated,      \* the I that the last completed chunk loop left
  prev              \* the caller: key_length and result of its first call

args == << hash_algorithm, password, salt, iterations, key_length, id_, key >>
locals == << utf16_password, u, v, D, S, P, I, c, A, i, A2, B, j, to_copy, r,
             nchunks >>
ghosts == << ndigest, nupdates, seedI, lastUpdated >>
caller == << prev >>
vars == << args, pc, locals, result, err, ghosts, caller >>

\* ---------------------------------------------------------------- inputs
Bytes(b) == [t |-> "bytes", b |-> b]
Text == [t |-> "str", b |-> << >>]
Int_(n) == [t |-> "int", n |-> n]
NotInt == [t |-> "str", n |-> 0]

Passwords == { Bytes(<< >>), Bytes(<< 97 >>), Bytes(<< 240, 159, 152, 128 >>),
               Bytes(<< 255 >>), Text }
Salts == { Bytes(<< >>), Bytes(<< 255, 254, 7 >>), Text }
Iterations == { Int_(n) : n \in 0..MaxIterations } \cup { NotInt }
Algorithms == HashNames \cup { "sha3_256" }
Ids == 0..4

\* a length below the digest size, the digest size, and a length that is not
\* a multiple of it and needs MaxBlocks blocks
ValidKeyLengths(h) ==
  LET w == IF h \in HashNames THEN DigestSize(h) ELSE 16
  IN  { 5, w, (MaxBlocks - 1) * w + 5 }

KeyLengths(h) == { Int_(n) : n \in {0} \cup ValidKeyLengths(h) } \cup { NotInt }

NoPrev == [kl |-> 0, out |-> << >>]

Init ==
  /\ hash_algorithm \in Algorithms
  /\ password \in Passwords
  /\ salt \in Salts
  /\ iterations \in Iterations
  /\ key_length \in KeyLengths(hash_algorithm)
  /\ id_ \in Ids
  /\ key \in 0..(NumDigests - 1)
  /\ pc = "validate"
  /\ utf16_password = << >> /\ u = 0 /\ v = 0
  /\ D = << >> /\ S = << >> /\ P = << >> /\ I = << >>
  /\ c = 0 /\ A = << >> /\ i = 0 /\ A2 = << >> /\ B = << >>
  /\ j = 0 /\ to_copy = 0 /\ r = 0 /\ nchunks = 0
  /\ result = << >> /\ err = NoError
  /\ ndigest = 0 /\ nupdates = 0 /\ seedI = << >> /\ lastUpdated = << >>
  /\ prev = NoPrev

\* --------------------------------------------------------------- actions
\* lines 50-72
Validate ==
  /\ pc = "validate"
  /\ LET e == ValidationError(hash_algorithm, password, salt, iterations,
                              key_length, id_)
     IN  IF e # NoError
         THEN pc' = "raised" /\ err' = e
         ELSE pc' = "encode" /\ err' = err
  /\ UNCHANGED << args, locals, result, ghosts, caller >>

\* line 74
Encode ==
  /\ pc = "encode"
  /\ LET e == EncodePassword(password.b)
     IN  IF e = DecodeError
         THEN /\ pc' = "raised"
              /\ err' = Error("UnicodeDecodeError", "invalid utf-8")
              /\ utf16_password' = utf16_password
         ELSE /\ pc' = "setup"
              /\ err' = err
              /\ utf16_password' = e
  /\ UNCHANGED << args, u, v, D, S, P, I, c, A, i, A2, B, j, to_copy, r,
                  nchunks, result, ghosts, caller >>

\* lines 76-120: digest parameters, steps 1 to 5, the accumulator, i = 1
Setup ==
  /\ pc = "setup"
  /\ u' = DigestSize(hash_algorithm)
  /\ v' = BlockSize(hash_algorithm)
  /\ D' = Diversifier(id_, v')
  /\ S' = Stretch(salt.b, v')
  /\ P' = Stretch(utf16_password, v')
  /\ I' = S' \o P'
  /\ c' = NumBlocks(key_length.n, u')
  /\ A' = Times(0, c' * u')
  /\ i' = 1
  /\ pc' = "seed"
  /\ UNCHANGED << args, utf16_password, A2, B, j, to_copy, r, nchunks,
                  result, err, ghosts, caller >>

\* line 122
HashSeed ==
  /\ pc = "seed"
  /\ A2' = Digest(hash_algorithm, key, D \o I)
  /\ ndigest' = ndigest + 1
  /\ seedI' = I
  /\ r' = 2
  /\ pc' = "rehash"
  /\ UNCHANGED << args, utf16_password, u, v, D, S, P, I, c, A, i, B, j,
                  to_copy, nchunks, result, err, nupdates, lastUpdated,
                  caller >>

\* lines 123-124, one pass of the loop
Rehash ==
  /\ pc = "rehash"
  /\ r <= RehashLast(iterations.n)
  /\ A2' = Digest(hash_algorithm, key, A2)
  /\ ndigest' = ndigest + 1
  /\ r' = r + 1
  /\ UNCHANGED << args, pc, utf16_password, u, v, D, S, P, I, c, A, i, B, j,
                  to_copy, nchunks, result, err, nupdates, seedI, lastUpdated,
                  caller >>

\* lines 126-135: the re-hash loop is over; step 6B when blocks remain
BuildB ==
  /\ pc = "rehash"
  /\ r > RehashLast(iterations.n)
  /\ NeedsUpdate(i, c)
  /\ B' = MakeB(A2, v)
  /\ j' = 0
  /\ nchunks' = Len(I) \div v
  /\ pc' = "chunk"
  /\ UNCHANGED << args, utf16_password, u, v, D, S, P, I, c, A, i, A2,
                  to_copy, r, result, err, ghosts, caller >>

\* lines 135-147, one pass of the chunk loop
UpdateChunk ==
  /\ pc = "chunk"
  /\ j < nchunks
  /\ I' = UpdateChunkOf(I, j, v, B)
  /\ j' = j + 1
  /\ UNCHANGED << args, pc, utf16_password, u, v, D, S, P, c, A, i, A2, B,
                  to_copy, r, nchunks, result, err, ghosts, caller >>

\* line 135, the chunk loop is over
UpdateDone ==
  /\ pc = "chunk"
  /\ j >= nchunks
  /\ nupdates' = nupdates + 1
  /\ lastUpdated' = I
  /\ pc' = "copy"
  /\ UNCHANGED << args, locals, result, err, ndigest, seedI, caller >>

\* line 126, the last block skips step 6B
SkipUpdate ==
  /\ pc = "rehash"
  /\ r > RehashLast(iterations.n)
  /\ ~NeedsUpdate(i, c)
  /\ pc' = "copy"
  /\ UNCHANGED << args, locals, result, err, ghosts, caller >>

\* lines 150-152 and the step of the block loop, line 120
Copy ==
  /\ pc = "copy"
  /\ to_copy' = ToCopy(key_length.n, u)
  /\ A' = CopyInto(A, A2, Begin(i, u), to_copy')
  /\ IF i < c THEN i' = i + 1 /\ pc' = "seed"
              ELSE i' = i /\ pc' = "return"
  /\ UNCHANGED << args, utf16_password, u, v, D, S, P, I, c, A2, B, j, r,
                  nchunks, result, err, ghosts, caller >>

\* line 154
Return ==
  /\ pc = "return"
  /\ result' = Result(A, key_length.n)
  /\ pc' = "done"
  /\ UNCHANGED << args, locals, err, ghosts, caller >>

\* the caller, after its first call returned, calls once more with a larger
\* key_length and otherwise the same arguments, keeping the first result
CallAgain ==
  /\ pc = "done"
  /\ prev = NoPrev
  /\ \E kl \in ValidKeyLengths(hash_algorithm) :
       /\ kl > key_length.n
       /\ key_length' = Int_(kl)
  /\ prev' = [kl |-> key_length.n, out |-> result]
  /\ pc' = "validate"
  /\ utf16_password' = << >> /\ u' = 0 /\ v' = 0
  /\ D' = << >> /\ S' = << >> /\ P' = << >> /\ I' = << >>
  /\ c' = 0 /\ A' = << >> /\ i' = 0 /\ A2' = << >> /\ B' = << >>
  /\ j' = 0 /\ to_copy' = 0 /\ r' = 0 /\ nchunks' = 0
  /\ result' = << >> /\ err' = NoError
  /\ ndigest' = 0 /\ nupdates' = 0 /\ seedI' = << >> /\ lastUpdated' = << >>
  /\ UNCHANGED << hash_algorithm, password, salt, iterations, id_, key >>

Next ==
  \/ Validate \/ Encode \/ Setup \/ HashSeed \/ Rehash \/ BuildB
  \/ UpdateChunk \/ UpdateDone \/ SkipUpdate \/ Copy \/ Return \/ CallAgain

Spec == Init /\ [][Next]_vars

\* ================================================================ claims
\* every parameter passes the checks the interface lists
ValidInputs ==
  /\ password.t = "bytes" /\ salt.t = "bytes"
  /\ iterations.t = "int" /\ iterations.n >= 1
  /\ key_length.t = "int" /\ key_length.n >= 1
  /\ hash_algorithm \in HashNames
  /\ id_ \in {1, 2, 3}

InRange(b, lo, hi) == b >= lo /\ b <= hi

ByteAt(bs, k, lo, hi) == Len(bs) >= k /\ InRange(bs[k], lo, hi)

\* the length of the well-formed UTF-8 sequence that bs starts with, Unicode
\* standard table 3-7; 0 when it starts with none
LeadingUtf8(bs) ==
  IF ByteAt(bs, 1, 0, 127) THEN 1
  ELSE IF ByteAt(bs, 1, 194, 223) /\ ByteAt(bs, 2, 128, 191) THEN 2
  ELSE IF /\ \/ ByteAt(bs, 1, 224, 224) /\ ByteAt(bs, 2, 160, 191)
             \/ ByteAt(bs, 1, 225, 236) /\ ByteAt(bs, 2, 128, 191)
             \/ ByteAt(bs, 1, 237, 237) /\ ByteAt(bs, 2, 128, 159)
             \/ ByteAt(bs, 1, 238, 239) /\ ByteAt(bs, 2, 128, 191)
          /\ ByteAt(bs, 3, 128, 191) THEN 3
  ELSE IF /\ \/ ByteAt(bs, 1, 240, 240) /\ ByteAt(bs, 2, 144, 191)
             \/ ByteAt(bs, 1, 241, 243) /\ ByteAt(bs, 2, 128, 191)
             \/ ByteAt(bs, 1, 244, 244) /\ ByteAt(bs, 2, 128, 143)
          /\ ByteAt(bs, 3, 128, 191) /\ ByteAt(bs, 4, 128, 191) THEN 4
  ELSE 0

RECURSIVE WellFormedUtf8(_)
WellFormedUtf8(bs) ==
  IF Len(bs) = 0 THEN TRUE
  ELSE IF LeadingUtf8(bs) = 0 THEN FALSE
  ELSE WellFormedUtf8(SubSeq(bs, LeadingUtf8(bs) + 1, Len(bs)))

TextPassword == password.t = "bytes" /\ WellFormedUtf8(password.b)

Terminated == pc \in {"done", "raised"}

\* the blocks are built and the block loop is running or over
AfterSetup == pc \in {"seed", "rehash", "chunk", "copy", "return", "done"}

\* ------------------------------------------------------------------- C1
\* C1 as stated: a call whose arguments pass validation, whatever the
\* password bytes, ends by returning exactly key_length bytes.
C1_LengthAnyPassword ==
  (ValidInputs /\ Terminated) => (pc = "done" /\ Len(result) = key_length.n)

\* C1 amended: a call whose arguments pass validation and whose password is
\* well-formed UTF-8 ends by returning exactly key_length bytes, for
\* key_length below, at and above the digest size u, multiple of u or not.
C1_Length ==
  (ValidInputs /\ TextPassword /\ Terminated)
    => (pc = "done" /\ Len(result) = key_length.n)

C1_Witness ==
  /\ pc = "done" /\ c >= 2 /\ key_length.n % u # 0
  /\ Len(result) = key_length.n /\ Len(A) > key_length.n

\* ------------------------------------------------------------------- C2
\* C2 as stated: once the arguments pass validation, whatever the password
\* and salt bytes, no error is raised.
C2_NoErrorAnyPassword ==
  ValidInputs => (pc # "raised" /\ err = NoError)

\* C2 amended: once the arguments pass validation and the password is
\* well-formed UTF-8, no statement of the body raises an error; the only
\* error of the body is the decoding error of a password that is not UTF-8,
\* raised before any digest is computed.
C2_NoBodyError ==
  /\ (ValidInputs /\ TextPassword) => (pc # "raised" /\ err = NoError)
  /\ (ValidInputs /\ pc = "raised")
       => (err.cls = "UnicodeDecodeError" /\ ~TextPassword /\ ndigest = 0)

C2_Witness ==
  /\ pc = "done" /\ password.b = << 240, 159, 152, 128 >>
  /\ utf16_password = << 216, 61, 222, 0, 0, 0 >>
  /\ salt.b # << >> /\ c = MaxBlocks

\* ------------------------------------------------------------------- C3
\* C3: when any parameter is invalid the call never gets past validation:
\* it ends with an error and the digest has been invoked zero times.
C3_InvalidNoHash ==
  ~ValidInputs => /\ pc \in {"validate", "raised"}
                  /\ ndigest = 0
                  /\ (pc = "raised" => err # NoError)

C3_Witness ==
  /\ pc = "raised" /\ id_ \notin {1, 2, 3} /\ ndigest = 0
  /\ password.t = "bytes" /\ salt.t = "bytes"
  /\ iterations.t = "int" /\ iterations.n >= 1
  /\ key_length.t = "int" /\ key_length.n >= 1
  /\ hash_algorithm \in HashNames

\* ------------------------------------------------------------------- C4
\* the first check of the function head that the arguments fail
FirstFault ==
  IF password.t # "bytes" THEN "password type"
  ELSE IF salt.t # "bytes" THEN "salt type"
  ELSE IF iterations.t # "int" THEN "iterations type"
  ELSE IF iterations.n < 1 THEN "iterations range"
  ELSE IF key_length.t # "int" THEN "key_length type"
  ELSE IF key_length.n < 1 THEN "key_length range"
  ELSE IF hash_algorithm \notin HashNames THEN "hash_algorithm value"
  ELSE IF id_ \notin {1, 2, 3} THEN "id_ value"
  ELSE "none"

\* C4 as stated: a non-byte password or salt raises a type error, iterations
\* or key_length below 1 a range error, an unsupported hash_algorithm or id
\* a value error: three different classes.
C4_ThreeClasses ==
  (pc = "raised" /\ ~ValidInputs) =>
    /\ FirstFault \in {"password type", "salt type"} => err.cls = "TypeError"
    /\ FirstFault \in {"iterations range", "key_length range"}
         => err.cls = "RangeError"
    /\ FirstFault \in {"hash_algorithm value", "id_ value"}
         => err.cls = "ValueError"

\* C4 amended: every validation failure is raised in the one class
\* ValueError; the failures differ in the message, which names the first
\* parameter that fails its check.
C4_OneClass ==
  (pc = "raised" /\ ~ValidInputs) =>
    /\ err.cls = "ValueError"
    /\ err.msg =
         CASE FirstFault = "password type" -> "password must be a byte string"
           [] FirstFault = "salt type" -> "salt must be a byte string"
           [] FirstFault = "iterations type" -> "iterations must be an integer"
           [] FirstFault = "iterations range"
                -> "iterations must be greater than 0"
           [] FirstFault = "key_length type" -> "key_length must be an integer"
           [] FirstFault = "key_length range"
                -> "key_length must be greater than 0"
           [] FirstFault = "hash_algorithm value"
                -> "hash_algorithm must be one of"
           [] FirstFault = "id_ value" -> "id_ must be one of 1, 2, 3"

C4_Witness ==
  /\ pc = "raised" /\ password.t = "str" /\ err.cls = "ValueError"
  /\ err.msg = "password must be a byte string"

JustSetUp == pc = "seed" /\ i = 1

\* C6 as stated: an empty salt gives S empty and I = P, and an empty
\* password gives P empty and I = S.
C6_EmptySides ==
  JustSetUp => /\ salt.b = << >> => (S = << >> /\ I = P)
               /\ password.b = << >> => (P = << >> /\ I = S)

\* C6 amended: an empty salt gives S empty and I = P; an empty password is
\* encoded as the two-byte terminator, so P is v zero bytes, never empty,
\* and I = S || P; the call succeeds when the password is well-formed
\* UTF-8.
C6_EmptySalt ==
  /\ JustSetUp => /\ salt.b = << >> => (S = << >> /\ I = P)
                  /\ password.b = << >>
                       => /\ utf16_password = << 0, 0 >>
                          /\ P = Times(0, v)
                          /\ I = S \o P
                  /\ P # << >> /\ I # << >>
  /\ (ValidInputs /\ TextPassword /\ (salt.b = << >> \/ password.b = << >>))
       => pc # "raised"

C6_Witness ==
  /\ pc = "done" /\ salt.b = << >> /\ password.b = << >>
  /\ S = << >> /\ P = Times(0, v) /\ Len(P) = v

\* ------------------------------------------------------------------- C7
\* C7: every chunk update writes exactly v bytes, so I keeps the length
\* step 4 gave it, a multiple of v.
C7_ChunkWidth ==
  AfterSetup => (Len(I) = Len(S) + Len(P) /\ Len(I) % v = 0)

\* ------------------------------------------------------------------- C8
\* C8: the chunk loop runs once for each block but the last, c - 1 times in
\* all, and has rewritten all its chunks before the seed of the next block
\* is hashed, which reads the I that loop left.
C8_UpdateOrder ==
  /\ pc \in {"seed", "rehash"}
       => /\ nupdates = i - 1
          /\ i > 1 => (j = nchunks /\ lastUpdated = (IF pc = "seed" THEN I
                                                                   ELSE seedI))
  /\ pc = "chunk" => (i < c /\ nupdates = i - 1 /\ j <= nchunks)
  /\ pc = "copy" => nupdates = (IF i < c THEN i ELSE c - 1)
  /\ pc \in {"return", "done"} => nupdates = c - 1

C8_Witness ==
  /\ pc = "rehash" /\ i = 3 /\ nupdates = 2 /\ nchunks = 2 /\ j = 2
  /\ seedI = lastUpdated /\ seedI # S \o P

\* ------------------------------------------------------------------- C9
RECURSIVE DigestTimes(_, _, _, _)
DigestTimes(h, k, msg, n) ==
  IF n = 0 THEN msg ELSE DigestTimes(h, k, Digest(h, k, msg), n - 1)

\* C9: the A2 of every block is the seed D || I digested iterations times,
\* and a call that returns has invoked the digest c * iterations times with
\* c the least number of u-byte blocks covering key_length.
C9_DigestCount ==
  /\ pc = "rehash" => ndigest = (i - 1) * iterations.n + (r - 1)
  /\ pc \in {"chunk", "copy"}
       => /\ ndigest = i * iterations.n
          /\ A2 = DigestTimes(hash_algorithm, key, D \o seedI, iterations.n)
  /\ pc \in {"return", "done"}
       => /\ ndigest = c * iterations.n
          /\ c * u >= key_length.n /\ (c - 1) * u < key_length.n

C9_Witness ==
  /\ pc = "done" /\ iterations.n = MaxIterations /\ c = MaxBlocks
  /\ ndigest = MaxBlocks * MaxIterations

\* ------------------------------------------------------------------ C10
\* the block whose copy was the last one made
CopiedBlock == IF pc = "seed" THEN i - 1 ELSE i

JustCopied == pc = "return" \/ (pc = "seed" /\ i > 1)

\* C10 as stated: block i copies min(key_length - (i-1)*u, u) bytes.
C10_CopyRemaining ==
  JustCopied => to_copy = Min(key_length.n - (CopiedBlock - 1) * u, u)

\* C10 amended: block i copies min(key_length, u) bytes of A2, all u bytes
\* when key_length >= u, to offset (i-1)*u of A; the bytes of A before the
\* offset and after the copy stay as they were and A keeps its length c*u.
C10_CopyFrame ==
  [][pc = "copy" =>
       LET begin == (i - 1) * u
           n == Min(key_length.n, u)
       IN  /\ to_copy' = n
           /\ Len(A') = c * u /\ Len(A) = c * u
           /\ Slice(A', 0, begin) = Slice(A, 0, begin)
           /\ Slice(A', begin, begin + n) = Slice(A2, 0, n)
           /\ SliceFrom(A', begin + n) = SliceFrom(A, begin + n)]_vars

C10_Witness ==
  /\ pc = "return" /\ c >= 2 /\ key_length.n % u = 5 /\ to_copy = u
  /\ Slice(A, (c - 1) * u, c * u) = A2

====
